---- MODULE Spec2Model ----
(***************************************************************************)
(* pyxslt: conversion of Python names to XML tag names (names.py), the     *)
(* serialization of Python object graphs to an XML tree (serialize.py) and *)
(* the loading of included stylesheets (transform.py).                     *)
(*                                                                         *)
(* Strings are sequences of one-character strings, so that the regular     *)
(* expressions of names.py and str() can be computed character by          *)
(* character.                                                              *)
(***************************************************************************)
EXTENDS Integers, Sequences, FiniteSets, TLC

\* the name conversion on its own
VARIABLES pythonName, namePc, xmlTag, xmlTagAgain

\* the database rows, and one Serializer instance with its last call
VARIABLES db, ignoreRelationship, xmlDoc, _rootNode, __nodeStack,
          call, raised, returned

\* the libxml2 documents of the instance that are allocated, whether freeDoc
\* was called on a document that was not, and whether __del__ has run
VARIABLES liveDocs, doubleFree, deleted

nameVars == <<pythonName, namePc, xmlTag, xmlTagAgain>>

serVars == <<db, ignoreRelationship, xmlDoc, _rootNode, __nodeStack,
             call, raised, returned, liveDocs, doubleFree, deleted>>

\* the process that calls transform.toString: its working directory, the
\* entity loader that libxml2 holds, the last call and the file that the
\* include of its stylesheet was loaded from
VARIABLES cwd, entityLoader, xslCall, loaded

transVars == <<cwd, entityLoader, xslCall, loaded>>

vars == <<nameVars, serVars, transVars>>

(***************************************************************************)
(* Bounds.                                                                 *)
(***************************************************************************)
MaxNameLen == 6

\* the interpreter's recursion limit, counted in frames of the _serialize*
\* methods: a deeper call raises RuntimeError (maximum recursion depth)
RecursionLimit == 8

\* the documents that libxml2 can hold at a time
MaxDocs == 3

(***************************************************************************)
(* Characters: the classes [A-Z], [a-z], [0-9] and str.lower().            *)
(***************************************************************************)
UpperSeq ==
    <<"A","B","C","D","E","F","G","H","I","J","K","L","M",
      "N","O","P","Q","R","S","T","U","V","W","X","Y","Z">>

LowerSeq ==
    <<"a","b","c","d","e","f","g","h","i","j","k","l","m",
      "n","o","p","q","r","s","t","u","v","w","x","y","z">>

DigitSeq == <<"0","1","2","3","4","5","6","7","8","9">>

SeqRange(s) == {s[i] : i \in 1..Len(s)}

UpperChars == SeqRange(UpperSeq)

LowerChars == SeqRange(LowerSeq)

DigitChars == SeqRange(DigitSeq)

IsUpper(c) == c \in UpperChars

IsLower(c) == c \in LowerChars

IsDigit(c) == c \in DigitChars

\* str.lower() on one character
LowerOf == [c \in UpperChars |->
               LowerSeq[CHOOSE i \in 1..Len(UpperSeq) : UpperSeq[i] = c]]

LowerChar(c) == IF IsUpper(c) THEN LowerOf[c] ELSE c

\* str.lower()
lower(s) == [i \in 1..Len(s) |-> LowerChar(s[i])]

\* s[a:b] of Python, 0-based, for 0 <= a <= b <= len(s)
Slice(s, a, b) == [i \in 1..(b - a) |-> s[a + i]]

(***************************************************************************)
(* _checkName: _badNameRegExp = '[^A-Za-z0-9]' must not be found.          *)
(***************************************************************************)
BadNameChar(c) == ~(IsUpper(c) \/ IsLower(c) \/ IsDigit(c))

CheckNameNoDigits(name) ==
    \A i \in 1..Len(name) : IsUpper(name[i]) \/ IsLower(name[i])

CheckNameAllowsHyphen(name) ==
    \A i \in 1..Len(name) : ~BadNameChar(name[i]) \/ name[i] = "-"

_checkName(name) == \A i \in 1..Len(name) : ~BadNameChar(name[i])

(***************************************************************************)
(* _fixAcronyms: re.sub of                                                 *)
(*     (?P<acronym>[A-Z]+)(?P<nextWord>([A-Z][a-z])|$)                     *)
(* scanning from the left; positions are 0-based offsets into s.           *)
(***************************************************************************)
\* the alternatives of nextWord at offset p: the length it matches, or -1
NextWordLen(s, p) ==
    IF p + 2 <= Len(s) /\ IsUpper(s[p + 1]) /\ IsLower(s[p + 2]) THEN 2
    ELSE IF p = Len(s) THEN 0
    ELSE -1

\* the longest run of [A-Z] at offset p
RECURSIVE UpperRun(_, _)
UpperRun(s, p) ==
    IF p < Len(s) /\ IsUpper(s[p + 1]) THEN 1 + UpperRun(s, p + 1) ELSE 0

\* [A-Z]+ is greedy and backtracks: of the lengths k >= 1 it can take at
\* offset p, the longest after which nextWord matches (0: no match at p)
AcronymMatch(s, p) ==
    LET ks == {k \in 1..UpperRun(s, p) : NextWordLen(s, p + k) >= 0}
    IN  IF ks = {} THEN 0 ELSE CHOOSE k \in ks : \A j \in ks : j <= k

\* '%s%s%s' % (acronym[0], acronym[1:].lower(), nextWord)
AcronymReplKeepsCase(acronym, nextWord) == acronym \o nextWord

__acronymRepl(acronym, nextWord) ==
    <<acronym[1]>> \o lower(Tail(acronym)) \o nextWord

RECURSIVE FixFrom(_, _)
FixFrom(s, p) ==
    IF p >= Len(s) THEN <<>>
    ELSE LET k == AcronymMatch(s, p)
         IN  IF k = 0
             THEN <<s[p + 1]>> \o FixFrom(s, p + 1)
             ELSE LET n == NextWordLen(s, p + k)
                  IN  __acronymRepl(Slice(s, p, p + k),
                                    Slice(s, p + k, p + k + n))
                        \o FixFrom(s, p + k + n)

_fixAcronyms(s) == FixFrom(s, 0)

(***************************************************************************)
(* _insertHyphens: re.sub of [a-z][A-Z], then lower().                     *)
(***************************************************************************)
HyphenMatch(s, p) ==
    p + 2 <= Len(s) /\ IsLower(s[p + 1]) /\ IsUpper(s[p + 2])

\* s = match.group(0).lower(); '%s-%s' % (s[0], s[1:])
\* the variant that puts the hyphen after the pair
HyphenReplAfterPair(m) == lower(m) \o <<"-">>

__hyphenRepl(m) == <<lower(m)[1]>> \o <<"-">> \o Tail(lower(m))

RECURSIVE HyphenFrom(_, _)
HyphenFrom(s, p) ==
    IF p >= Len(s) THEN <<>>
    ELSE IF HyphenMatch(s, p)
         THEN __hyphenRepl(Slice(s, p, p + 2)) \o HyphenFrom(s, p + 2)
         ELSE <<s[p + 1]>> \o HyphenFrom(s, p + 1)

_insertHyphens(s) == lower(HyphenFrom(s, 0))

(***************************************************************************)
(* pythonNameToXmlTag: ValueError on a bad name, else the tag.             *)
(***************************************************************************)
NoTag == <<>>

pythonNameToXmlTag(name) ==
    IF ~_checkName(name)
    THEN [err |-> "ValueError", tag |-> NoTag]
    ELSE [err |-> "", tag |-> _insertHyphens(_fixAcronyms(name))]

(***************************************************************************)
(* Python values.  Every value is an object with an identity; Heap gives   *)
(* its type and contents.  Lists and dictionaries hold references, so an   *)
(* object can be reached twice or contain itself.                          *)
(***************************************************************************)
None == "None"

\* names of keyword arguments and of attributes
FooName == <<"f", "o", "o">>

MyURLName == <<"m", "y", "U", "R", "L">>

GoneName == <<"g", "o", "n", "e">>

BadName == <<"b", "a", "d", "_", "n", "a", "m", "e">>

Value(kind, int, chars, elems, keys, names) ==
    [kind |-> kind, int |-> int, chars |-> chars,
     elems |-> elems, keys |-> keys, names |-> names]

Scalar(kind, int, chars) == Value(kind, int, chars, <<>>, <<>>, <<>>)

PersonRows == {"p1", "p2"}

PhoneNumberRows == {"n1"}

URLRows == {"u1"}

SqlRows == PersonRows \cup PhoneNumberRows \cup URLRows

Heap ==
    (None :> Scalar("NoneType", 0, <<>>))
 @@ ("1" :> Scalar("int", 1, <<>>))
 @@ ("2" :> Scalar("int", 2, <<>>))
 @@ ("12" :> Scalar("int", 12, <<>>))
 @@ ("'bar'" :> Scalar("str", 0, <<"b", "a", "r">>))
 @@ ("'one'" :> Scalar("str", 0, <<"o", "n", "e">>))
 @@ ("True" :> Scalar("bool", 1, <<>>))
 \* u'\xe9': str() of it raises UnicodeEncodeError
 @@ ("u'\\xe9'" :> Scalar("unicode", 0, <<>>))
 @@ ("[]" :> Value("list", 0, <<>>, <<>>, <<>>, <<>>))
 @@ ("(1, 2)" :> Value("tuple", 0, <<>>, <<"1", "2">>, <<>>, <<>>))
 @@ ("[None, (1, 2), 'bar']" :>
        Value("list", 0, <<>>, <<None, "(1, 2)", "'bar'">>, <<>>, <<>>))
 @@ ("[1, u'\\xe9', 2]" :>
        Value("list", 0, <<>>, <<"1", "u'\\xe9'", "2">>, <<>>, <<>>))
 @@ ("{'one': 1, 12: (1, 2), 2: None}" :>
        Value("dict", 0, <<>>, <<"1", "(1, 2)", None>>,
              <<"'one'", "12", "2">>, <<>>))
 \* a.foo = 1; a.myURL = 'bar'; a.gone = None
 @@ ("a" :>
        Value("object", 0, <<>>, <<"1", "'bar'", None>>, <<>>,
              <<FooName, MyURLName, GoneName>>))
 \* b.foo = 1; b.bad_name = 2
 @@ ("b" :>
        Value("object", 0, <<>>, <<"1", "2">>, <<>>,
              <<FooName, BadName>>))
 \* c.foo = c
 @@ ("c" :> Value("object", 0, <<>>, <<"c">>, <<>>, <<FooName>>))
 \* d.bad_name = None; d.foo = 1
 @@ ("d" :>
        Value("object", 0, <<>>, <<None, "1">>, <<>>, <<BadName, FooName>>))
 \* l = []; l.append(l)
 @@ ("[[...]]" :> Value("list", 0, <<>>, <<"[[...]]">>, <<>>, <<>>))
 \* Person.select()
 @@ ("Person.select()" :>
        Value("SelectResults", 0, <<>>, <<"p1", "p2">>, <<>>, <<>>))
 @@ [r \in SqlRows |-> Value("sql", 0, <<>>, <<>>, <<>>, <<>>)]

Objects == DOMAIN Heap

(***************************************************************************)
(* str() of a value.                                                       *)
(***************************************************************************)
RECURSIVE IntToStr(_)
IntToStr(n) ==
    IF n < 10 THEN <<DigitSeq[n + 1]>>
    ELSE IntToStr(n \div 10) \o <<DigitSeq[(n % 10) + 1]>>

StrOfBool(b) == IF b = 1 THEN <<"T", "r", "u", "e">>
                ELSE <<"F", "a", "l", "s", "e">>

\* str(obj): the text, or the exception it raises
str(o) ==
    LET v == Heap[o]
    IN  CASE v.kind = "NoneType" ->
                [err |-> "", text |-> <<"N", "o", "n", "e">>]
          [] v.kind = "int" -> [err |-> "", text |-> IntToStr(v.int)]
          [] v.kind = "bool" -> [err |-> "", text |-> StrOfBool(v.int)]
          [] v.kind = "str" -> [err |-> "", text |-> v.chars]
          [] OTHER -> [err |-> "UnicodeEncodeError", text |-> <<>>]

(***************************************************************************)
(* The SQLObject classes and rows: sqlmeta.soClass, sqlmeta.columnList,    *)
(* sqlmeta.joins, and the attributes of a row.                             *)
(***************************************************************************)
soClass(r) ==
    IF r \in PersonRows THEN "Person"
    ELSE IF r \in PhoneNumberRows THEN "PhoneNumber"
    ELSE "URL"

Column(origName, foreignKey, className) ==
    [origName |-> origName, foreignKey |-> foreignKey,
     className |-> className]

Join(joinMethodName) == [joinMethodName |-> joinMethodName]

FirstNameCol == <<"f", "i", "r", "s", "t", "N", "a", "m", "e">>

MiddleInitialCol == <<"m", "i", "d", "d", "l", "e", "I", "n", "i", "t", "i", "a", "l">>

BossCol == <<"b", "o", "s", "s">>

AddressCol == <<"a", "d", "d", "r", "e", "s", "s">>

PersonCol == <<"p", "e", "r", "s", "o", "n">>

NumberCol == <<"n", "u", "m", "b", "e", "r">>

PhoneNumbersJoin == <<"p", "h", "o", "n", "e", "N", "u", "m", "b", "e", "r", "s">>

StaffJoin == <<"s", "t", "a", "f", "f">>

columnList(r) ==
    IF soClass(r) = "Person"
    THEN <<Column(FirstNameCol, FALSE, "SOStringCol"),
           Column(MiddleInitialCol, FALSE, "SOStringCol"),
           Column(BossCol, TRUE, "SOForeignKey")>>
    ELSE IF soClass(r) = "PhoneNumber"
    THEN <<Column(PersonCol, TRUE, "SOForeignKey"),
           Column(NumberCol, FALSE, "SOStringCol")>>
    ELSE <<Column(AddressCol, FALSE, "SOUnicodeCol")>>

\* Person.staff = MultipleJoin('Person', joinColumn='boss_id') is declared
\* in some databases only
joins(r) ==
    IF soClass(r) = "Person"
    THEN <<Join(PhoneNumbersJoin)>>
           \o (IF db.staff THEN <<Join(StaffJoin)>> ELSE <<>>)
    ELSE <<>>

\* sqlObj.id
IdOf(r) == CASE r = "p1" -> 1 [] r = "p2" -> 2 [] OTHER -> 1

\* the rows of a set in the order of their ids
RECURSIVE RowsById(_)
RowsById(rows) ==
    IF rows = {} THEN <<>>
    ELSE LET first == CHOOSE r \in rows : \A q \in rows : IdOf(r) <= IdOf(q)
         IN  <<first>> \o RowsById(rows \ {first})

\* getattr(sqlObj, name) for a column: a scalar, a row or None
ColumnValue(r, colName) ==
    CASE colName = FirstNameCol -> IF r = "p1" THEN "'bar'" ELSE "'one'"
      [] colName = MiddleInitialCol -> IF r = "p1" THEN None ELSE "'one'"
      [] colName = BossCol -> db.boss[r]
      [] colName = PersonCol -> db.person[r]
      [] colName = AddressCol -> "u'\\xe9'"
      [] OTHER -> "12"

\* getattr(sqlObj, name) for a MultipleJoin: the rows whose foreign key is r
JoinRows(r, joinMethodName) ==
    IF joinMethodName = PhoneNumbersJoin
    THEN RowsById({n \in PhoneNumberRows : db.person[n] = r})
    ELSE RowsById({p \in PersonRows : db.boss[p] = r})

\* names.pythonNameToXmlTag as serialize.py calls it, tabulated over the
\* names that occur as keywords, attributes, columns and joins
Identifiers ==
    {FooName, MyURLName, GoneName, BadName, FirstNameCol, MiddleInitialCol,
     BossCol, PersonCol, NumberCol, PhoneNumbersJoin, StaffJoin,
     AddressCol}

names == [name \in Identifiers |-> pythonNameToXmlTag(name)]

(***************************************************************************)
(* libxml2 nodes.  obj is bookkeeping: the Python object that was          *)
(* serialized into the node by _serializeItem or _serializeSqlObject       *)
(* (NoObj for a text child and for a node nothing was serialized into).    *)
(***************************************************************************)
ItemTag == <<"i", "t", "e", "m">>

IdProp == <<"i", "d">>

KeyProp == <<"k", "e", "y">>

RootTagName == <<"p", "y", "x", "s", "l", "t">>

NoObj == "-"

\* at: the node stack when an object was serialized into the node
newNode(name) ==
    [name |-> name, props |-> <<>>, content |-> <<>>, children |-> <<>>,
     obj |-> NoObj, at |-> <<>>]

\* parentNode.newChild(None, name, None), with what was then done to the child
addChild(parentNode, node) ==
    [parentNode EXCEPT !.children = Append(@, node)]

newProp(node, name, value) ==
    [node EXCEPT !.props = Append(@, [name |-> name, value |-> value])]

addContent(node, text) == [node EXCEPT !.content = @ \o text]

\* the variant that writes the text into the parent as well
NewTextChildAndText(parentNode, name, text) ==
    addContent(addChild(parentNode, addContent(newNode(name), text)), text)

newTextChild(parentNode, name, text) ==
    addChild(parentNode, addContent(newNode(name), text))

(***************************************************************************)
(* The traversal.  Every method gets the node it writes into, the node     *)
(* stack and its frame depth, and gives back the node, the stack and the   *)
(* exception that left it ("" when it returned).  An exception leaves the  *)
(* node and the stack as they were when it was raised.  A loop is given by *)
(* its first n iterations: the n-th one runs when the ones before it have  *)
(* not raised.                                                             *)
(***************************************************************************)
Return(node, stack) == [err |-> "", node |-> node, stack |-> stack]

Raise(node, stack, err) == [err |-> err, node |-> node, stack |-> stack]

\* colValue in self.__nodeStack
InStack(stack, r) == \E i \in 1..Len(stack) : stack[i] = r

\* (className, propName) in self.ignoreRelationship
IgnoredNever(className, propName) == FALSE

IgnoredAlways(className, propName) == TRUE

Ignored(className, propName) ==
    <<className, propName>> \in ignoreRelationship

\* obj is None
IsNoneNever(obj) == FALSE

IsNone(obj) == obj = None

\* the items that "for item in element" goes through
ListItemsButLast(element) ==
    SubSeq(Heap[element].elems, 1, Len(Heap[element].elems) - 1)

ListItems(element) == Heap[element].elems

\* element.items(): the entries of a dictionary, one per key
DictItemsButLast(element) ==
    [i \in 1..(Len(Heap[element].keys) - 1) |->
        [key |-> Heap[element].keys[i], value |-> Heap[element].elems[i]]]

DictItems(element) ==
    [i \in 1..Len(Heap[element].keys) |->
        [key |-> Heap[element].keys[i], value |-> Heap[element].elems[i]]]

\* self.__nodeStack.pop()
PoppedNever(stack) == stack

Popped(stack) == SubSeq(stack, 1, Len(stack) - 1)

\* the statements that follow a call: Rest gets what the call gave, which is
\* computed once, and runs when the call has not raised
ThenUnlessRaised(r, Rest(_)) ==
    CHOOSE out \in {IF prev.err # "" THEN prev ELSE Rest(prev) :
                        prev \in {r}} : TRUE

RECURSIVE _serializeObject(_, _, _, _, _)
RECURSIVE _serializeItem(_, _, _, _)
RECURSIVE ObjectFields(_, _, _, _, _)
RECURSIVE _serializeDict(_, _, _, _, _)
RECURSIVE _serializeList(_, _, _, _, _)
RECURSIVE _serializeSqlObject(_, _, _, _)
RECURSIVE SqlColumns(_, _, _, _, _)
RECURSIVE SqlJoins(_, _, _, _, _)
RECURSIVE SqlJoinRows(_, _, _, _, _)

\* the child that a call r wrote into is in the tree whether the call
\* returned or raised
WithChild(parentNode, r) ==
    CHOOSE out \in {[err |-> c.err, node |-> addChild(parentNode, c.node),
                     stack |-> c.stack] : c \in {r}} : TRUE

_serializeObject(parentNode, stack, objName, obj, depth) ==
    IF depth > RecursionLimit THEN Raise(parentNode, stack, "RuntimeError")
    ELSE LET tagName == names[objName]
         IN  IF tagName.err # "" THEN Raise(parentNode, stack, tagName.err)
             ELSE IF IsNone(obj) THEN Return(parentNode, stack)
             ELSE WithChild(parentNode,
                      _serializeItem(newNode(tagName.tag), stack, obj,
                                     depth + 1))

\* for objName, obj in obj.__dict__.items(): the first n fields
ObjectFields(parentNode, stack, obj, n, depth) ==
    IF n = 0 THEN Return(parentNode, stack)
    ELSE ThenUnlessRaised(
             ObjectFields(parentNode, stack, obj, n - 1, depth),
             LAMBDA prev :
                 _serializeObject(prev.node, prev.stack, Heap[obj].names[n],
                                  Heap[obj].elems[n], depth + 1))

_serializeItem(parentNode, stack, obj, depth) ==
    IF depth > RecursionLimit THEN Raise(parentNode, stack, "RuntimeError")
    ELSE LET node == [parentNode EXCEPT !.obj = obj, !.at = stack]
             kind == Heap[obj].kind
         IN  IF kind \in {"list", "tuple", "SelectResults"}
             THEN _serializeList(node, stack, obj, Len(ListItems(obj)),
                                 depth + 1)
             ELSE IF kind = "dict"
             THEN _serializeDict(node, stack, obj, Len(DictItems(obj)),
                                 depth + 1)
             ELSE IF kind = "sql"
             THEN _serializeSqlObject(node, stack, obj, depth + 1)
             ELSE IF kind = "object"
             THEN ObjectFields(node, stack, obj, Len(Heap[obj].names), depth)
             ELSE LET s == str(obj)
                  IN  IF s.err # "" THEN Raise(node, stack, s.err)
                      ELSE Return(addContent(node, s.text), stack)

\* for key, value in element.items(): the first n entries
_serializeDict(parentNode, stack, element, n, depth) ==
    IF depth > RecursionLimit THEN Raise(parentNode, stack, "RuntimeError")
    ELSE IF n = 0 THEN Return(parentNode, stack)
    ELSE LET key == str(DictItems(element)[n].key)
             itemNode == newNode(ItemTag)
         IN  ThenUnlessRaised(
                 _serializeDict(parentNode, stack, element, n - 1, depth),
                 LAMBDA prev :
                     IF key.err # ""
                     THEN Raise(addChild(prev.node, itemNode), prev.stack,
                                key.err)
                     ELSE WithChild(prev.node,
                              _serializeItem(
                                  newProp(itemNode, KeyProp, key.text),
                                  prev.stack, DictItems(element)[n].value,
                                  depth + 1)))

\* for item in element: the first n items
_serializeList(parentNode, stack, element, n, depth) ==
    IF depth > RecursionLimit THEN Raise(parentNode, stack, "RuntimeError")
    ELSE IF n = 0 THEN Return(parentNode, stack)
    ELSE ThenUnlessRaised(
             _serializeList(parentNode, stack, element, n - 1, depth),
             LAMBDA prev :
                 WithChild(prev.node,
                     _serializeItem(newNode(ItemTag), prev.stack,
                                    ListItems(element)[n], depth + 1)))

\* for column in sqlObj.sqlmeta.columnList: the first n columns
SqlColumns(parentNode, stack, sqlObj, n, depth) ==
    IF n = 0 THEN Return(parentNode, stack)
    ELSE LET column == columnList(sqlObj)[n]
             colName == column.origName
             colValue == ColumnValue(sqlObj, colName)
             colTagName == names[colName]
             s == str(colValue)
         IN  ThenUnlessRaised(
                 SqlColumns(parentNode, stack, sqlObj, n - 1, depth),
                 LAMBDA prev :
                     IF colTagName.err # ""
                     THEN Raise(prev.node, prev.stack, colTagName.err)
                     ELSE IF IsNone(colValue) THEN prev
                     ELSE IF column.foreignKey
                     THEN IF Ignored(soClass(sqlObj), colName)
                          THEN Return(newTextChild(prev.node, colTagName.tag,
                                                   IntToStr(IdOf(colValue))),
                                      prev.stack)
                          ELSE IF ~InStack(prev.stack, colValue)
                          THEN WithChild(prev.node,
                                   _serializeSqlObject(
                                       newNode(colTagName.tag), prev.stack,
                                       colValue, depth + 1))
                          ELSE prev
                     ELSE IF column.className = "SODateTimeCol"
                     THEN Return(newTextChild(prev.node, colTagName.tag,
                                              Heap[colValue].chars),
                                 prev.stack)
                     ELSE IF s.err # ""
                     THEN Raise(prev.node, prev.stack, s.err)
                     ELSE Return(newTextChild(prev.node, colTagName.tag,
                                              s.text),
                                 prev.stack))

\* for joinedRow in getattr(sqlObj, join.joinMethodName): the first n rows
SqlJoinRows(joinNode, stack, rows, n, depth) ==
    IF n = 0 THEN Return(joinNode, stack)
    ELSE ThenUnlessRaised(
             SqlJoinRows(joinNode, stack, rows, n - 1, depth),
             LAMBDA prev :
                 WithChild(prev.node,
                     _serializeSqlObject(newNode(ItemTag), prev.stack,
                                         rows[n], depth + 1)))

\* for join in sqlObj.sqlmeta.joins: the first n joins
SqlJoins(parentNode, stack, sqlObj, n, depth) ==
    IF n = 0 THEN Return(parentNode, stack)
    ELSE LET join == joins(sqlObj)[n]
             joinTagName == names[join.joinMethodName]
             rows == JoinRows(sqlObj, join.joinMethodName)
         IN  ThenUnlessRaised(
                 SqlJoins(parentNode, stack, sqlObj, n - 1, depth),
                 LAMBDA prev :
                     IF Ignored(soClass(sqlObj), join.joinMethodName)
                     THEN prev
                     ELSE IF joinTagName.err # ""
                     THEN Raise(prev.node, prev.stack, joinTagName.err)
                     ELSE WithChild(prev.node,
                              SqlJoinRows(newNode(joinTagName.tag),
                                          prev.stack, rows, Len(rows),
                                          depth)))

_serializeSqlObject(parentNode, stack, sqlObj, depth) ==
    IF depth > RecursionLimit THEN Raise(parentNode, stack, "RuntimeError")
    ELSE LET node == newProp([parentNode EXCEPT
                                  !.obj = sqlObj,
                                  !.at = Append(stack, sqlObj)],
                             IdProp, IntToStr(IdOf(sqlObj)))
         IN  ThenUnlessRaised(
                 SqlColumns(node, Append(stack, sqlObj), sqlObj,
                            Len(columnList(sqlObj)), depth),
                 LAMBDA cols :
                     ThenUnlessRaised(
                         SqlJoins(cols.node, cols.stack, sqlObj,
                                  Len(joins(sqlObj)), depth),
                         LAMBDA js :
                             Return(js.node, Popped(js.stack))))

(***************************************************************************)
(* transform.py: paths, and EntityLoader.loadFile.                         *)
(***************************************************************************)
Sep == "/"

\* os.path.isabs
isabs(path) == path # <<>> /\ path[1] = Sep

\* os.path.join of two paths
join(a, b) ==
    IF isabs(b) THEN b
    ELSE IF a = <<>> \/ a[Len(a)] = Sep THEN a \o b
    ELSE a \o <<Sep>> \o b

\* path.split('/')
RECURSIVE split(_)
split(path) ==
    IF \A i \in 1..Len(path) : path[i] # Sep THEN <<path>>
    ELSE LET i == CHOOSE k \in 1..Len(path) :
                      path[k] = Sep /\ \A j \in 1..(k - 1) : path[j] # Sep
         IN  <<SubSeq(path, 1, i - 1)>> \o split(SubSeq(path, i + 1, Len(path)))

\* '/'.join(comps)
RECURSIVE joinComps(_)
joinComps(comps) ==
    IF comps = <<>> THEN <<>>
    ELSE IF Len(comps) = 1 THEN comps[1]
    ELSE comps[1] \o <<Sep>> \o joinComps(Tail(comps))

DotDot == <<".", ".">>

\* the loop of os.path.normpath over the first n components
RECURSIVE newComps(_, _, _)
newComps(comps, n, initialSlashes) ==
    IF n = 0 THEN <<>>
    ELSE LET new == newComps(comps, n - 1, initialSlashes)
             comp == comps[n]
         IN  IF comp \in {<<>>, <<".">>} THEN new
             ELSE IF \/ comp # DotDot
                     \/ (initialSlashes = 0 /\ new = <<>>)
                     \/ (new # <<>> /\ new[Len(new)] = DotDot)
             THEN Append(new, comp)
             ELSE IF new # <<>> THEN SubSeq(new, 1, Len(new) - 1)
             ELSE new

\* os.path.normpath
normpath(path) ==
    LET initialSlashes ==
            IF ~isabs(path) THEN 0
            ELSE IF /\ Len(path) >= 2 /\ path[2] = Sep
                    /\ ~(Len(path) >= 3 /\ path[3] = Sep)
            THEN 2
            ELSE 1
        comps == split(path)
        joined == joinComps(newComps(comps, Len(comps), initialSlashes))
        out == [i \in 1..initialSlashes |-> Sep] \o joined
    IN  IF out = <<>> THEN <<".">> ELSE out

\* xslBasePath=None
NoPath == <<>>

\* no entity loader has been given to libxml2
NoLoader == [basePath |-> NoPath, relPath |-> NoPath, set |-> FALSE]

\* EntityLoader(basePath, relPath)
EntityLoader(basePath, relPath) ==
    [basePath |-> basePath, relPath |-> relPath, set |-> TRUE]

\* the path that loadFile opens
filePath(loader, path) ==
    IF isabs(path) THEN join(loader.basePath, Tail(path))
    ELSE normpath(join(loader.relPath, path))

\* what an include is loaded from: by the loader when it can open its file,
\* else, and when libxml2 holds no loader, by libxml2 from the path as the
\* stylesheet gives it
ByLibxml2(path) == [by |-> "libxml2", path |-> path]

loadFile(loader, path, found) ==
    IF loader.set /\ found
    THEN [by |-> "EntityLoader", path |-> filePath(loader, path)]
    ELSE ByLibxml2(path)

NoTransformCall ==
    [called |-> FALSE, xslBasePath |-> NoPath, include |-> <<>>,
     cwd |-> <<>>, found |-> FALSE]

NothingLoaded == [by |-> "", path |-> <<>>]

DirA == <<Sep, "a">>

DirB == <<Sep, "a", Sep, "b">>

\* no call of transform.toString has been made
TransformIdle ==
    /\ cwd = DirA
    /\ entityLoader = NoLoader
    /\ xslCall = NoTransformCall
    /\ loaded = NothingLoaded

\* no name has been typed or converted
NotConverted == [err |-> "unset", tag |-> NoTag]

NameIdle ==
    /\ pythonName = <<>>
    /\ namePc = "input"
    /\ xmlTag = NotConverted
    /\ xmlTagAgain = NotConverted

(***************************************************************************)
(* One Serializer instance: its constructor arguments, the database it is  *)
(* used on, and the calls made on it.                                      *)
(***************************************************************************)
\* the databases: who is the boss of each person, whose number n1 is, and
\* whether Person declares the staff join
Databases ==
    [boss : [PersonRows -> PersonRows \cup {None}],
     person : [PhoneNumberRows -> {"p1"}],
     staff : BOOLEAN]

\* the ignoreRelationship lists given to the constructor
IgnoreChoices ==
    {{}, {<<"PhoneNumber", PersonCol>>}, {<<"Person", BossCol>>},
     {<<"Person", PhoneNumbersJoin>>}}

Keyword(name, obj) == [name |-> name, obj |-> obj]

\* the keyword arguments given to serialize, in the order of items()
KeywordChoices ==
    {<<Keyword(MyURLName, o)>> :
        o \in {None, "True", "[]", "[None, (1, 2), 'bar']",
               "[1, u'\\xe9', 2]", "{'one': 1, 12: (1, 2), 2: None}",
               "a", "b", "p1", "p2", "n1"}}
      \cup {<<Keyword(BadName, o)>> : o \in {None, "1"}}
      \cup {<<Keyword(FooName, o1), Keyword(n2, o2)>> :
                o1 \in {None, "1"}, n2 \in {MyURLName, BadName},
                o2 \in {None, "u'\\xe9'"}}

\* the values given to serializeOne
ElementChoices ==
    {None, "12", "u'\\xe9'", "(1, 2)", "[None, (1, 2), 'bar']",
     "{'one': 1, 12: (1, 2), 2: None}", "a", "p1", "n1", "Person.select()",
     "c", "d", "[[...]]", "u1"}

NoNode == newNode(<<>>)

\* the last call: its arguments, and whether it found rows on the node stack
\* that the call before it had left there
NoCall ==
    [method |-> "", kwargs |-> <<>>, element |-> None, foundRows |-> FALSE]

NothingReturned == [by |-> "", node |-> NoNode]

\* __init__: self.xmlDoc = None (0 stands for None, d > 0 for document d)
NewSerializer ==
    /\ xmlDoc = 0
    /\ liveDocs = {}
    /\ doubleFree = FALSE
    /\ deleted = FALSE
    /\ _rootNode = NoNode
    /\ __nodeStack = <<>>
    /\ call = NoCall
    /\ raised = ""
    /\ returned = NothingReturned

SerializerIdle ==
    /\ db = [boss |-> [p \in PersonRows |-> None],
             person |-> [n \in PhoneNumberRows |-> "p1"],
             staff |-> FALSE]
    /\ ignoreRelationship = {}
    /\ NewSerializer

Init ==
    /\ db \in Databases
    /\ ignoreRelationship \in IgnoreChoices
    /\ NewSerializer
    /\ NameIdle
    /\ TransformIdle

\* _freeXmlDoc on the document doc, live being the allocated documents
\* the variant that forgets the document and does not free it
FreeXmlDocForgets(doc, live) ==
    [xmlDoc |-> 0, liveDocs |-> live, doubleFree |-> FALSE]

_freeXmlDoc(doc, live) ==
    IF doc # 0
    THEN [xmlDoc |-> 0, liveDocs |-> live \ {doc},
          doubleFree |-> doc \notin live]
    ELSE [xmlDoc |-> doc, liveDocs |-> live, doubleFree |-> FALSE]

\* libxml2.newDoc: the first document that is not allocated
newDoc(live) ==
    CHOOSE d \in 1..MaxDocs :
        d \notin live /\ \A e \in 1..(d - 1) : e \in live

\* _createXmlDoc: free the current document if any, then a new one
_createXmlDoc ==
    LET freed == _freeXmlDoc(xmlDoc, liveDocs)
    IN  /\ freed.liveDocs # 1..MaxDocs
        /\ xmlDoc' = newDoc(freed.liveDocs)
        /\ liveDocs' = freed.liveDocs \cup {newDoc(freed.liveDocs)}
        /\ doubleFree' = (doubleFree \/ freed.doubleFree)

\* __del__: _freeXmlDoc, and the instance is gone
__del__ ==
    /\ ~deleted
    /\ LET freed == _freeXmlDoc(xmlDoc, liveDocs)
       IN  /\ xmlDoc' = freed.xmlDoc
           /\ liveDocs' = freed.liveDocs
           /\ doubleFree' = (doubleFree \/ freed.doubleFree)
    /\ deleted' = TRUE
    /\ UNCHANGED <<db, ignoreRelationship, _rootNode, __nodeStack, call,
                   raised, returned>>
    /\ UNCHANGED nameVars
    /\ UNCHANGED transVars

\* self.__nodeStack = []
\* the variant that goes on with the stack as the call found it
NodeStackKept(stack) == stack

NewNodeStack(stack) == <<>>

\* for objName, obj in elements.items(): the first n keywords
RECURSIVE SerializeElements(_, _, _, _)
SerializeElements(rootNode, stack, kwargs, n) ==
    IF n = 0 THEN Return(rootNode, stack)
    ELSE ThenUnlessRaised(
             SerializeElements(rootNode, stack, kwargs, n - 1),
             LAMBDA prev :
                 _serializeObject(prev.node, prev.stack, kwargs[n].name,
                                  kwargs[n].obj, 2))

\* serialize(**elements): _createXmlDoc, an empty node stack, the traversal
serialize(kwargs) ==
    /\ ~deleted
    /\ _createXmlDoc
    /\ \E r \in {SerializeElements(newNode(RootTagName),
                                    NewNodeStack(__nodeStack), kwargs,
                                    Len(kwargs))} :
           /\ _rootNode' = r.node
           /\ __nodeStack' = r.stack
           /\ raised' = r.err
    /\ call' = [method |-> "serialize", kwargs |-> kwargs, element |-> None,
                foundRows |-> __nodeStack # <<>>]
    /\ returned' = NothingReturned
    /\ UNCHANGED <<db, ignoreRelationship, deleted>>
    /\ UNCHANGED nameVars
    /\ UNCHANGED transVars

\* serializeOne(element)
serializeOne(element) ==
    /\ ~deleted
    /\ _createXmlDoc
    /\ \E r \in {_serializeItem(newNode(RootTagName),
                                NewNodeStack(__nodeStack), element, 2)} :
           /\ _rootNode' = r.node
           /\ __nodeStack' = r.stack
           /\ raised' = r.err
    /\ call' = [method |-> "serializeOne", kwargs |-> <<>>,
                element |-> element, foundRows |-> __nodeStack # <<>>]
    /\ returned' = NothingReturned
    /\ UNCHANGED <<db, ignoreRelationship, deleted>>
    /\ UNCHANGED nameVars
    /\ UNCHANGED transVars

\* toString(): self.xmlDoc.serialize(...), the text of the tree (the tree
\* stands for its text); AttributeError when xmlDoc is None
toString ==
    /\ ~deleted
    /\ returned.by = ""
    /\ IF xmlDoc = 0
       THEN /\ raised' = "AttributeError"
            /\ returned' = [by |-> "toString", node |-> NoNode]
       ELSE /\ raised' = raised
            /\ returned' = [by |-> "toString", node |-> _rootNode]
    /\ UNCHANGED <<db, ignoreRelationship, xmlDoc, _rootNode, __nodeStack,
                   call, liveDocs, doubleFree, deleted>>
    /\ UNCHANGED nameVars
    /\ UNCHANGED transVars

\* toXmlDoc(): a copy of self._rootNode; AttributeError when no call has set
\* _rootNode yet
toXmlDoc ==
    /\ ~deleted
    /\ returned.by = ""
    /\ IF call.method = ""
       THEN /\ raised' = "AttributeError"
            /\ returned' = [by |-> "toXmlDoc", node |-> NoNode]
       ELSE /\ raised' = raised
            /\ returned' = [by |-> "toXmlDoc", node |-> _rootNode]
    /\ UNCHANGED <<db, ignoreRelationship, xmlDoc, _rootNode, __nodeStack,
                   call, liveDocs, doubleFree, deleted>>
    /\ UNCHANGED nameVars
    /\ UNCHANGED transVars

Next ==
    \/ \E kwargs \in KeywordChoices : serialize(kwargs)
    \/ \E element \in ElementChoices : serializeOne(element)
    \/ toString
    \/ toXmlDoc
    \/ __del__

Spec == Init /\ [][Next]_vars

(***************************************************************************)
(* The name conversion on its own: a name is typed character by character, *)
(* converted, and the tag is converted once more.                          *)
(***************************************************************************)
NameAlphabet == {"a", "A", "B", "1", "_"}

NameInit == NameIdle /\ SerializerIdle /\ TransformIdle

TypeChar(c) ==
    /\ namePc = "input"
    /\ Len(pythonName) < MaxNameLen
    /\ pythonName' = Append(pythonName, c)
    /\ UNCHANGED <<namePc, xmlTag, xmlTagAgain>>
    /\ UNCHANGED serVars
    /\ UNCHANGED transVars

ConvertName ==
    /\ namePc = "input"
    /\ xmlTag' = pythonNameToXmlTag(pythonName)
    /\ namePc' = "converted"
    /\ UNCHANGED <<pythonName, xmlTagAgain>>
    /\ UNCHANGED serVars
    /\ UNCHANGED transVars

\* pythonNameToXmlTag(pythonNameToXmlTag(x)); the inner error propagates
ConvertTagAgain ==
    /\ namePc = "converted"
    /\ xmlTagAgain' = IF xmlTag.err # "" THEN xmlTag
                      ELSE pythonNameToXmlTag(xmlTag.tag)
    /\ namePc' = "reconverted"
    /\ UNCHANGED <<pythonName, xmlTag>>
    /\ UNCHANGED serVars
    /\ UNCHANGED transVars

NameNext ==
    \/ \E c \in NameAlphabet : TypeChar(c)
    \/ ConvertName
    \/ ConvertTagAgain

SpecNames == NameInit /\ [][NameNext]_vars

(***************************************************************************)
(* transform.toString called again and again by one process that also      *)
(* changes its working directory.  The calls have no elements; their       *)
(* stylesheet has one include.                                             *)
(***************************************************************************)
\* the directories of the process and the base paths of the calls
Dirs == {DirA, DirB}

BasePaths == {NoPath, DirA, DirB}

\* the href of the include: relative, relative through the parent, absolute
Includes == {<<"i">>, <<".", ".", Sep, "i">>, <<Sep, "i">>}

TransformInit == NameIdle /\ SerializerIdle /\ TransformIdle

\* os.chdir(dir)
chdir(dir) ==
    /\ dir # cwd
    /\ cwd' = dir
    /\ UNCHANGED <<entityLoader, xslCall, loaded>>
    /\ UNCHANGED nameVars
    /\ UNCHANGED serVars

\* transform.toString(xslPath, xslBasePath=xslBasePath): the entity loader
\* is set when a base path is given; the stylesheet is parsed, which loads
\* its include through the loader that libxml2 holds then; found tells
\* whether the file that the loader opens exists
transformToString(xslBasePath, include, found) ==
    /\ \E loader \in {IF xslBasePath # NoPath
                       THEN EntityLoader(xslBasePath, cwd)
                       ELSE entityLoader} :
           /\ entityLoader' = loader
           /\ loaded' = loadFile(loader, include, found)
    /\ xslCall' = [called |-> TRUE, xslBasePath |-> xslBasePath,
                   include |-> include, cwd |-> cwd, found |-> found]
    /\ UNCHANGED cwd
    /\ UNCHANGED nameVars
    /\ UNCHANGED serVars

TransformNext ==
    \/ \E dir \in Dirs : chdir(dir)
    \/ \E xslBasePath \in BasePaths, include \in Includes, found \in BOOLEAN :
           transformToString(xslBasePath, include, found)

SpecTransform == TransformInit /\ [][TransformNext]_vars

(***************************************************************************)
(* Properties of the name conversion (checked under SpecNames).            *)
(***************************************************************************)
Alnum == UpperChars \cup LowerChars \cup DigitChars

HasHyphen(s) == \E i \in 1..Len(s) : s[i] = "-"

\* C2: pythonNameToXmlTag(name) raises ValueError if and only if name has a
\* character outside [A-Za-z0-9]; every other name, the empty one included
\* (which gives the empty tag), is converted without error.
C2_FailsIffBadCharacter ==
    namePc # "input" =>
        /\ (xmlTag.err = "ValueError") <=>
               (\E i \in 1..Len(pythonName) : pythonName[i] \notin Alnum)
        /\ xmlTag.err \in {"", "ValueError"}
        /\ (pythonName = <<>> => xmlTag = [err |-> "", tag |-> <<>>])

C2_Witness ==
    /\ namePc = "converted"
    /\ pythonName = <<"a", "_", "B">>
    /\ xmlTag.err = "ValueError"

\* The bumpy words of C3.
IsLowerWord(w) == Len(w) >= 1 /\ \A i \in 1..Len(w) : IsLower(w[i])

IsCapitalizedWord(w) ==
    Len(w) >= 2 /\ IsUpper(w[1]) /\ \A i \in 2..Len(w) : IsLower(w[i])

IsAcronymWord(w) == Len(w) >= 2 /\ \A i \in 1..Len(w) : IsUpper(w[i])

IsSingleLetterWord(w) == Len(w) = 1 /\ IsUpper(w[1])

\* the kinds a word starting at offset p and ending at offset q may have,
\* given the kind of the word before it
WordKinds(s, p, q, prev) ==
    LET w == Slice(s, p, q)
    IN  {k \in {"lower", "cap", "acronym", "single"} :
            \/ k = "lower" /\ IsLowerWord(w) /\ prev = "start"
            \/ k = "cap" /\ IsCapitalizedWord(w)
            \/ k = "acronym" /\ IsAcronymWord(w) /\ prev # "acronym"
            \/ k = "single" /\ IsSingleLetterWord(w) /\ q = Len(s)
                  /\ prev \in {"lower", "cap"}}

\* every way of reading s from offset p on as a sequence of bumpy words
RECURSIVE BumpyWords(_, _, _)
BumpyWords(s, p, prev) ==
    IF p = Len(s) THEN {<<>>}
    ELSE UNION {UNION {{<<Slice(s, p, q)>> \o rest :
                            rest \in BumpyWords(s, q, k)} :
                        k \in WordKinds(s, p, q, prev)} :
                q \in (p + 1)..Len(s)}

RECURSIVE JoinLowered(_)
JoinLowered(ws) ==
    IF ws = <<>> THEN <<>>
    ELSE IF Len(ws) = 1 THEN lower(ws[1])
    ELSE lower(ws[1]) \o <<"-">> \o JoinLowered(Tail(ws))

\* C3: a letters-only name made of bumpy words (an optional lowercase first
\* word, then capitalized words, acronyms not followed by another acronym,
\* and a single capital as last word after a lowercase letter) is converted
\* to exactly its lowercased words joined by single hyphens.
C3_BumpyWordsJoinedByHyphens ==
    namePc # "input" =>
        \A ws \in BumpyWords(pythonName, 0, "start") :
            xmlTag = [err |-> "", tag |-> JoinLowered(ws)]

C3_Witness ==
    /\ namePc = "converted"
    /\ pythonName = <<"a", "A", "B", "A", "a">>
    /\ <<<<"a">>, <<"A", "B">>, <<"A", "a">>>>
           \in BumpyWords(pythonName, 0, "start")
    /\ xmlTag.tag = <<"a", "-", "a", "b", "-", "a", "a">>

\* C4 as stated: for every name over [A-Za-z0-9], converting the tag again
\* succeeds and gives the same tag.
C4_Idempotent ==
    (namePc = "reconverted" /\ xmlTag.err = "") =>
        xmlTagAgain = xmlTag

\* C4 amended: for every name over [A-Za-z0-9], converting the tag again
\* gives the same tag when the tag has no hyphen, and raises ValueError
\* when it has one.
C4_IdempotentUnlessHyphen ==
    (namePc = "reconverted" /\ xmlTag.err = "") =>
        IF HasHyphen(xmlTag.tag)
        THEN xmlTagAgain.err = "ValueError"
        ELSE xmlTagAgain = xmlTag

C4_Witness ==
    /\ namePc = "reconverted"
    /\ pythonName = <<"A", "B", "1", "A", "a">>
    /\ xmlTag.err = ""
    /\ ~HasHyphen(xmlTag.tag)
    /\ xmlTagAgain = xmlTag

(***************************************************************************)
(* Properties of the Serializer (checked under Spec).                      *)
(***************************************************************************)
\* every node of the tree below n, with the rows that are open at it: the
\* rows serialized into n and into the nodes above it
RECURSIVE Visits(_, _)
Visits(n, path) ==
    LET here == IF n.obj \in SqlRows THEN Append(path, n.obj) ELSE path
    IN  {[node |-> n, stack |-> here]}
          \cup UNION {Visits(n.children[i], here) : i \in 1..Len(n.children)}

AllVisits == Visits(_rootNode, <<>>)

SqlVisits == {v \in AllVisits : v.node.obj \in SqlRows}

ChildrenNamed(n, tag) == {i \in 1..Len(n.children) : n.children[i].name = tag}

NamedCount(n, name) == Cardinality(ChildrenNamed(n, names[name].tag))

\* a child made by newTextChild: text only
IsTextChild(n, text) ==
    /\ n.content = text
    /\ n.props = <<>>
    /\ n.children = <<>>
    /\ n.obj = NoObj
    /\ n.at = <<>>

\* the texts of the scalars and of the ids of the rows, written out
TextOf(o) ==
    CASE o = None -> <<"N", "o", "n", "e">>
      [] o = "1" -> <<"1">>
      [] o = "2" -> <<"2">>
      [] o = "12" -> <<"1", "2">>
      [] o = "'bar'" -> <<"b", "a", "r">>
      [] o = "'one'" -> <<"o", "n", "e">>
      [] o = "True" -> <<"T", "r", "u", "e">>
      [] o = "p2" -> <<"2">>
      [] OTHER -> <<"1">>

HasText(o) == o \in {None, "1", "2", "12", "'bar'", "'one'", "True"}

Called == call.method # ""

Succeeded == Called /\ raised = ""

\* a foreign key leads back to a row through a chain of foreign keys
ForeignKeyCycle ==
    \E p \in PersonRows :
        /\ db.boss[p] # None
        /\ (db.boss[p] = p \/ db.boss[db.boss[p]] = p)

\* C1: when a foreign key points back to a row that is being serialized,
\* directly or through a chain of foreign keys, the traversal ends by
\* itself whatever joins the rows declare: it never recurses until the
\* interpreter's recursion limit stops it.
C1_ForeignKeyCyclesTerminate ==
    (Called /\ ForeignKeyCycle) => raised # "RuntimeError"

\* C5: for a pair (class, foreign-key column) in ignoreRelationship, every
\* node a row of that class with a non-null value in the column was
\* serialized into, at any depth, has for the column exactly one child, a
\* text child with the id of the referenced row, never a nested node.
C5_IgnoredForeignKeyGivesIdOnly ==
    \A v \in SqlVisits :
        LET r == v.node.obj
        IN  \A i \in 1..Len(columnList(r)) :
                LET col == columnList(r)[i]
                    val == ColumnValue(r, col.origName)
                    kids == ChildrenNamed(v.node, names[col.origName].tag)
                IN  (/\ col.foreignKey
                     /\ <<soClass(r), col.origName>> \in ignoreRelationship
                     /\ val # None)
                    => /\ \A k \in kids :
                              IsTextChild(v.node.children[k], TextOf(val))
                       /\ Cardinality(kids) <= 1
                       /\ Succeeded => Cardinality(kids) = 1

C5_Witness ==
    /\ Succeeded
    /\ <<"Person", BossCol>> \in ignoreRelationship
    /\ \E v \in SqlVisits :
           /\ Len(v.stack) >= 2
           /\ v.node.obj = "p1"
           /\ db.boss["p1"] = "p2"
           /\ \E k \in 1..Len(v.node.children) :
                  /\ v.node.children[k].name = BossCol
                  /\ v.node.children[k].content = <<"2">>

\* C6: for a pair (class, join) in ignoreRelationship, no node a row of that
\* class was serialized into, at any depth, has a child for the join: no
\* join node, hence no joined row under it.
C6_IgnoredJoinGivesNoNode ==
    \A v \in SqlVisits :
        LET r == v.node.obj
        IN  \A j \in 1..Len(joins(r)) :
                <<soClass(r), joins(r)[j].joinMethodName>>
                        \in ignoreRelationship
                    => NamedCount(v.node, joins(r)[j].joinMethodName) = 0

C6_Witness ==
    /\ Succeeded
    /\ <<"Person", PhoneNumbersJoin>> \in ignoreRelationship
    /\ \E v \in SqlVisits :
           /\ Len(v.stack) >= 2
           /\ v.node.obj = "p1"
           /\ JoinRows("p1", PhoneNumbersJoin) # <<>>
           /\ \A k \in 1..Len(v.node.children) :
                  v.node.children[k].name
                      # <<"p", "h", "o", "n", "e", "-",
                          "n", "u", "m", "b", "e", "r", "s">>

\* the number of children that the keywords, the fields of plain objects and
\* the columns of rows have under their parent; Expected(value, skipped) is
\* the number claimed for a value, skipped telling that the value is a
\* foreign key to an open row that is not ignored
NamedValuesCounted(Expected(_, _)) ==
    /\ call.method = "serialize" =>
           \A i \in 1..Len(call.kwargs) :
               NamedCount(_rootNode, call.kwargs[i].name)
                   = Expected(call.kwargs[i].obj, FALSE)
    /\ \A v \in AllVisits :
           (v.node.obj \in Objects /\ Heap[v.node.obj].kind = "object")
               => \A i \in 1..Len(Heap[v.node.obj].names) :
                      NamedCount(v.node, Heap[v.node.obj].names[i])
                          = Expected(Heap[v.node.obj].elems[i], FALSE)
    /\ \A v \in SqlVisits :
           LET r == v.node.obj
           IN  \A i \in 1..Len(columnList(r)) :
                   LET col == columnList(r)[i]
                       val == ColumnValue(r, col.origName)
                   IN  NamedCount(v.node, col.origName)
                           = Expected(val,
                                 /\ col.foreignKey
                                 /\ <<soClass(r), col.origName>>
                                        \notin ignoreRelationship
                                 /\ \E k \in 1..Len(v.stack) :
                                        v.stack[k] = val)

OneUnlessNone(value, skipped) == IF value = None THEN 0 ELSE 1

OneUnlessNoneOrOpen(value, skipped) ==
    IF value = None \/ skipped THEN 0 ELSE 1

\* C7 as stated: a keyword, field or column whose value is None has no child
\* under its parent, and every other one has exactly one child with the
\* converted name.
C7_OneChildUnlessNone == Succeeded => NamedValuesCounted(OneUnlessNone)

\* C7 amended: a keyword, field or column whose value is None has no child
\* under its parent, and every other one has exactly one child with the
\* converted name, except a foreign-key column that is not ignored and
\* refers to a row that is being serialized: it has no child.
C7_OneChildUnlessNoneOrOpenRow ==
    Succeeded => NamedValuesCounted(OneUnlessNoneOrOpen)

C7_Witness ==
    /\ Succeeded
    /\ \E v \in SqlVisits :
           /\ v.node.obj = "p1"
           /\ Len(v.stack) >= 2
           /\ v.stack[1] = "p2"
           /\ db.boss["p1"] = "p2"
           /\ <<"Person", BossCol>> \notin ignoreRelationship
           /\ ColumnValue("p1", MiddleInitialCol) = None
           /\ NamedCount(v.node, FirstNameCol) = 1
           /\ NamedCount(v.node, MiddleInitialCol) = 0
           /\ NamedCount(v.node, BossCol) = 0

\* C8: a list or tuple of n elements gives its node exactly n children, all
\* named item, the i-th one being what the i-th element was serialized into.
C8_ListGivesItemsInOrder ==
    Succeeded =>
        \A v \in AllVisits :
            (/\ v.node.obj \in Objects
             /\ Heap[v.node.obj].kind \in {"list", "tuple", "SelectResults"})
            => LET elems == Heap[v.node.obj].elems
                   kids == v.node.children
               IN  /\ Len(kids) = Len(elems)
                   /\ v.node.content = <<>>
                   /\ \A i \in 1..Len(kids) :
                          /\ kids[i].name = <<"i", "t", "e", "m">>
                          /\ kids[i].obj = elems[i]
                          /\ HasText(elems[i]) =>
                                 /\ kids[i].content = TextOf(elems[i])
                                 /\ kids[i].children = <<>>

C8_Witness ==
    /\ Succeeded
    /\ \E v \in AllVisits :
           /\ v.node.obj = "[None, (1, 2), 'bar']"
           /\ Len(v.node.children) = 3
           /\ v.node.children[2].obj = "(1, 2)"
           /\ Len(v.node.children[2].children) = 2
           /\ v.node.children[2].children[2].content = <<"2">>

\* C9: a dictionary gives its node exactly one item child per entry, with a
\* key attribute that is the text of the entry's key, the child being what
\* the entry's value was serialized into.
C9_DictGivesOneItemPerEntry ==
    Succeeded =>
        \A v \in AllVisits :
            (v.node.obj \in Objects /\ Heap[v.node.obj].kind = "dict")
            => LET keys == Heap[v.node.obj].keys
                   elems == Heap[v.node.obj].elems
                   kids == v.node.children
               IN  /\ Len(kids) = Len(keys)
                   /\ \A i \in 1..Len(kids) :
                          /\ kids[i].name = <<"i", "t", "e", "m">>
                          /\ kids[i].props
                                 = <<[name |-> <<"k", "e", "y">>,
                                      value |-> TextOf(keys[i])]>>
                          /\ kids[i].obj = elems[i]
                          /\ HasText(elems[i]) =>
                                 /\ kids[i].content = TextOf(elems[i])
                                 /\ kids[i].children = <<>>

C9_Witness ==
    /\ Succeeded
    /\ \E v \in AllVisits :
           /\ v.node.obj = "{'one': 1, 12: (1, 2), 2: None}"
           /\ Len(v.node.children) = 3
           /\ v.node.children[2].props[1].value = <<"1", "2">>
           /\ Len(v.node.children[2].children) = 2

\* C10: when serialize or serializeOne raises, the partly built tree is
\* discarded: the Serializer holds no document, and toString and toXmlDoc
\* do not give the partial tree.
C10_FailureLeavesNoTree ==
    (Called /\ raised \notin {"", "AttributeError"}) =>
        /\ xmlDoc = 0
        /\ returned.node = NoNode

\* C11: after any calls of serialize and serializeOne the instance owns
\* exactly one allocated document, the one of its last call, and every
\* document of an earlier call has been freed once: none is left allocated,
\* none is freed twice, and after __del__ none is allocated at all.
C11_OneLiveTreeFreedOnce ==
    /\ ~doubleFree
    /\ (Called /\ ~deleted) => (xmlDoc # 0 /\ liveDocs = {xmlDoc})
    /\ (~Called \/ deleted) => (xmlDoc = 0 /\ liveDocs = {})

C11_Witness ==
    /\ deleted
    /\ Called
    /\ raised \notin {"", "AttributeError"}
    /\ liveDocs = {}

\* the foreign-key columns of the row of a node that are not ignored and
\* refer to a row on the node stack (the row itself included)
OpenForeignKeys(n) ==
    {i \in 1..Len(columnList(n.obj)) :
        LET col == columnList(n.obj)[i]
        IN  /\ col.foreignKey
            /\ <<soClass(n.obj), col.origName>> \notin ignoreRelationship
            /\ ColumnValue(n.obj, col.origName) # None
            /\ InStack(n.at, ColumnValue(n.obj, col.origName))}

\* C12: a foreign-key column that is not ignored and refers to a row on the
\* node stack has no child at all in the node of its row, while every other
\* column of the row that is not None has its child and every join of the
\* row that is not ignored has its node.
C12_OpenForeignKeySkippedOnly ==
    Succeeded =>
        \A v \in SqlVisits :
            OpenForeignKeys(v.node) # {} =>
                /\ \A i \in 1..Len(columnList(v.node.obj)) :
                       LET name == columnList(v.node.obj)[i].origName
                       IN  NamedCount(v.node, name)
                               = IF i \in OpenForeignKeys(v.node) THEN 0
                                 ELSE IF ColumnValue(v.node.obj, name) = None
                                 THEN 0
                                 ELSE 1
                /\ \A j \in 1..Len(joins(v.node.obj)) :
                       LET name == joins(v.node.obj)[j].joinMethodName
                       IN  <<soClass(v.node.obj), name>>
                                   \notin ignoreRelationship
                               => NamedCount(v.node, name) = 1

C12_Witness ==
    /\ Succeeded
    /\ \E v \in SqlVisits :
           /\ v.node.obj = "n1"
           /\ v.node.at = <<"p1", "n1">>
           /\ OpenForeignKeys(v.node) = {1}
           /\ Len(v.node.children) = 1
           /\ v.node.children[1].name = <<"n", "u", "m", "b", "e", "r">>
    /\ \E v \in SqlVisits :
           /\ v.node.obj = "p2"
           /\ v.node.at = <<"p1", "p2">>
           /\ OpenForeignKeys(v.node) = {3}
           /\ NamedCount(v.node, PhoneNumbersJoin) = 1

\* C13: None gives no output where _serializeItem meets it: the node it is
\* serialized into (an item of a list, a value of a dictionary, the root for
\* serializeOne) gets no text.
C13_NoneItemGivesNoText ==
    \A v \in AllVisits : v.node.obj = None => v.node.content = <<>>

\* C14: when a column or a join of a row fails with an invalid name or a
\* value that has no str(), the row is popped before the error leaves
\* _serializeSqlObject: the stack is then as it was on entry, so it is empty
\* when the error leaves the call.
C14_PoppedWhenColumnFails ==
    (Called /\ raised \in {"ValueError", "UnicodeEncodeError"})
        => __nodeStack = <<>>

NoRowTwice(stack) ==
    \A i, j \in 1..Len(stack) : stack[i] = stack[j] => i = j

\* C15: the node stack is a set at every point of a traversal: no row is on
\* it twice, so it is never deeper than the number of rows.
C15_StackIsASet ==
    /\ NoRowTwice(__nodeStack)
    /\ \A v \in AllVisits :
           /\ NoRowTwice(v.node.at)
           /\ Len(v.node.at) <= Cardinality(SqlRows)

\* C16: in a traversal that succeeds the node stack is, at every node an
\* object is serialized into, the rows on the path from the root to the node
\* and no row of a sibling path; so a row that a foreign key refers to and
\* that is not on the path is serialized in full, whatever was serialized
\* before, and the stack is empty at the end.
C16_StackIsThePath ==
    Succeeded =>
        /\ __nodeStack = <<>>
        /\ \A v \in AllVisits : v.node.obj # NoObj => v.node.at = v.stack
        /\ \A v \in SqlVisits :
               \A i \in 1..Len(columnList(v.node.obj)) :
                   LET col == columnList(v.node.obj)[i]
                       val == ColumnValue(v.node.obj, col.origName)
                   IN  (/\ col.foreignKey
                        /\ val # None
                        /\ <<soClass(v.node.obj), col.origName>>
                               \notin ignoreRelationship
                        /\ ~InStack(v.stack, val))
                       => \E k \in 1..Len(v.node.children) :
                              /\ v.node.children[k].obj = val
                              /\ v.node.children[k].props # <<>>
                              /\ v.node.children[k].children # <<>>

\* Person.select() with p1.boss = p2: p2 is serialized in full under p1 and
\* again as the second item
C16_Witness ==
    /\ Succeeded
    /\ call.element = "Person.select()"
    /\ db.boss["p1"] = "p2"
    /\ ignoreRelationship = {}
    /\ Len(_rootNode.children) = 2
    /\ _rootNode.children[2].obj = "p2"
    /\ _rootNode.children[2].at = <<"p2">>
    /\ NamedCount(_rootNode.children[2], FirstNameCol) = 1
    /\ \E k \in 1..Len(_rootNode.children[1].children) :
           /\ _rootNode.children[1].children[k].obj = "p2"
           /\ _rootNode.children[1].children[k].at = <<"p1", "p2">>
           /\ NamedCount(_rootNode.children[1].children[k], FirstNameCol) = 1

\* C17: in every tree that serialize or serializeOne builds, a node has text
\* or children, never both.
C17_TextOrChildren ==
    \A v \in AllVisits : v.node.content = <<>> \/ v.node.children = <<>>

C17_Witness ==
    /\ Succeeded
    /\ \E v \in AllVisits :
           /\ v.node.obj \in SqlRows
           /\ v.node.content = <<>>
           /\ \E k \in 1..Len(v.node.children) :
                  /\ v.node.children[k].content # <<>>
                  /\ v.node.children[k].children = <<>>

\* the names that are not valid belong to values that are None only
BadNameOnNoneOnly ==
    \/ /\ call.method = "serialize"
       /\ \A i \in 1..Len(call.kwargs) :
              /\ call.kwargs[i].name = BadName => call.kwargs[i].obj = None
              /\ call.kwargs[i].obj # "b"
    \/ /\ call.method = "serializeOne"
       /\ call.element = "d"

\* C18: a keyword, field or column whose value is None is left out before
\* its name is converted, so a name that is not valid raises no ValueError
\* when its value is None.
C18_NoneSkippedBeforeName == BadNameOnNoneOnly => raised # "ValueError"

\* C19: an ignored foreign-key column that refers to a row on the node stack
\* still has its text child with the id of the row: the ignore check comes
\* before the stack check.
C19_IgnoredBeforeStackCheck ==
    Succeeded =>
        \A v \in SqlVisits :
            \A i \in 1..Len(columnList(v.node.obj)) :
                LET col == columnList(v.node.obj)[i]
                    val == ColumnValue(v.node.obj, col.origName)
                    kids == ChildrenNamed(v.node, names[col.origName].tag)
                IN  (/\ col.foreignKey
                     /\ val # None
                     /\ <<soClass(v.node.obj), col.origName>>
                            \in ignoreRelationship
                     /\ InStack(v.node.at, val))
                    => /\ Cardinality(kids) = 1
                       /\ \A k \in kids :
                              v.node.children[k].content = TextOf(val)

C19_Witness ==
    /\ Succeeded
    /\ ignoreRelationship = {<<"PhoneNumber", PersonCol>>}
    /\ \E v \in SqlVisits :
           /\ v.node.obj = "n1"
           /\ v.node.at = <<"p1", "n1">>
           /\ Len(v.node.children) = 2
           /\ v.node.children[1].name = PersonCol
           /\ v.node.children[1].content = <<"1">>

\* C20: the traversal of a finite graph of plain objects, lists and
\* dictionaries ends by itself, also when an object has itself as a field
\* or a list has itself as an item: it never recurses until the
\* interpreter's recursion limit stops it.
C20_PlainCyclesTerminate ==
    (Called /\ call.element \in {"c", "[[...]]"}) => raised # "RuntimeError"

\* C21: every call of serialize and serializeOne starts its traversal with
\* an empty node stack, also when the call before it failed and left rows on
\* the stack: at every node of the tree of the call, failed or not, the
\* stack holds the rows of the path from the root of this tree and no row of
\* an earlier call.
C21_CallStartsWithEmptyStack ==
    Called =>
        \A v \in AllVisits : v.node.obj # NoObj => v.node.at = v.stack

\* u1 was left on the stack by a failed call; the next call serializes n1
\* with p1 in full under it
C21_Witness ==
    /\ call.foundRows
    /\ Succeeded
    /\ call.element = "n1"
    /\ _rootNode.at = <<"n1">>
    /\ \E k \in 1..Len(_rootNode.children) :
           /\ _rootNode.children[k].obj = "p1"
           /\ _rootNode.children[k].at = <<"n1", "p1">>

\* the tag with its hyphens deleted
WithoutHyphens(tag) == SelectSeq(tag, LAMBDA c : c # "-")

\* C23: for every name of letters and digits, the tag has only lower-case
\* letters, digits and hyphens; the tag with its hyphens deleted is the name
\* in lower case; every hyphen stands between two letters, so none leads,
\* trails or follows another.
C23_TagIsLoweredNameWithInnerHyphens ==
    (namePc # "input" /\ _checkName(pythonName)) =>
        /\ xmlTag.err = ""
        /\ \A i \in 1..Len(xmlTag.tag) :
               xmlTag.tag[i] \in LowerChars \cup DigitChars \cup {"-"}
        /\ WithoutHyphens(xmlTag.tag) = lower(pythonName)
        /\ \A i \in 1..Len(xmlTag.tag) :
               xmlTag.tag[i] = "-" =>
                   /\ 1 < i
                   /\ i < Len(xmlTag.tag)
                   /\ IsLower(xmlTag.tag[i - 1])
                   /\ IsLower(xmlTag.tag[i + 1])

\* a1aBaB: the digit stays and each of the two words gets its hyphen
C23_Witness ==
    /\ namePc = "converted"
    /\ pythonName = <<"a", "1", "a", "B", "a", "B">>
    /\ xmlTag = [err |-> "", tag |-> <<"a", "1", "a", "-", "b", "a", "-", "b">>]

(***************************************************************************)
(* Properties of transform.toString (checked under SpecTransform).         *)
(***************************************************************************)
\* the file that a call should load its include from by its own arguments
OwnFile(c) ==
    IF isabs(c.include) THEN join(c.xslBasePath, Tail(c.include))
    ELSE normpath(join(c.cwd, c.include))

\* C22: every call of transform.toString loads the include of its stylesheet
\* by its own arguments only: a call without xslBasePath loads it as libxml2
\* does by itself, unaffected by the loader of an earlier call; a call with
\* xslBasePath whose file exists loads a relative path from the working
\* directory of the call and an absolute path from xslBasePath of the call,
\* the leading separator stripped.
C22_LoadedByOwnArguments ==
    xslCall.called =>
        IF xslCall.xslBasePath = NoPath
        THEN loaded = ByLibxml2(xslCall.include)
        ELSE xslCall.found =>
                 loaded = [by |-> "EntityLoader", path |-> OwnFile(xslCall)]

====
